---------------------------- MODULE Spec2Model ----------------------------
(***************************************************************************)
(* SuperHelper / CovidTracker: the data acquisition and aggregation        *)
(* pipeline of src/SuperHelper/Modules/CovidTracker/__main__.py.           *)
(*                                                                         *)
(* Representation.  A piece of text is a sequence of one-character         *)
(* strings (<<"1","2">> is "12", <<>> is the empty string).  A date text   *)
(* "a-b-c" is the tuple of its three numeric tokens <<a, b, c>>.  A        *)
(* datetime is [year, month, day, tod]; tod is the time of day (0 is       *)
(* midnight).  A line of a report is the sequence of its comma-separated   *)
(* cells; CSV quoting is not modelled.  A Python dict whose insertion      *)
(* order is never observed is a function; the series get_country_data      *)
(* returns is an insertion-ordered sequence of <<key, value>> pairs.       *)
(***************************************************************************)
EXTENDS Integers, Sequences, FiniteSets, TLC

VARIABLES
    today,          \* dt.datetime.today() at module load
    latest_date,    \* the module global latest_date
    pc,             \* "probe" while the module-load loop runs, then "ready" (or "crashed")
    remote,         \* the upstream repository: URL -> File(report) or NoFile
    rawCache,       \* CacheDir/<MM-DD-YYYY>.csv: file name -> File(lines) or NoFile
    derivedCache,   \* CacheDir/extracted-<MM-DD-YYYY>.json: file name -> File(document) or NoFile
    call            \* the API call that has just finished: its arguments, the
                    \* network condition `net` it met, its outcome `out`, the
                    \* URLs it fetched and the dates it looked up (and, for
                    \* get_source_file, the cache file `before` the call);
                    \* Idle between calls

vars == <<today, latest_date, pc, remote, rawCache, derivedCache, call>>

----------------------------------------------------------------------------
(* Bounds of the model *)

\* date texts handed to normalise_datetime have day/month tokens in 1..MaxToken
MaxToken == 32

\* the process is loaded TodaySpan days after origin_date
TodaySpan == 2

\* a report handed to extract_source_data has at most MaxRows data rows
MaxRows == 3

\* the time of day at which the process is loaded (0 would be midnight)
LoadTime == 1

----------------------------------------------------------------------------
(* Outcomes of a call *)

Ok(v) == [ok |-> TRUE, value |-> v]
\* an exception of class `type` whose first argument is arg; a message is
\* written as a one-element tuple, a country name as its characters
Raise(type, arg) == [ok |-> FALSE, type |-> type, arg |-> arg]

Idle == [op |-> "idle"]

----------------------------------------------------------------------------
(* datetime: the proleptic Gregorian calendar of Python's datetime module *)

IsLeap(y) == y % 4 = 0 /\ (y % 100 # 0 \/ y % 400 = 0)

DaysInMonth(y, m) ==
    IF m = 2 THEN (IF IsLeap(y) THEN 29 ELSE 28)
    ELSE IF m \in {4, 6, 9, 11} THEN 30 ELSE 31

\* the days of a common year before the first of month m
DaysBeforeMonthTable == <<0, 31, 59, 90, 120, 151, 181, 212, 243, 273, 304, 334>>

DaysBeforeMonth(y, m) ==
    DaysBeforeMonthTable[m] + (IF m > 2 /\ IsLeap(y) THEN 1 ELSE 0)

DaysBeforeYear(y) ==
    (y - 1) * 365 + ((y - 1) \div 4) - ((y - 1) \div 100) + ((y - 1) \div 400)

\* datetime.toordinal()
ToOrdinal(d) == DaysBeforeYear(d.year) + DaysBeforeMonth(d.year, d.month) + d.day

\* dt.datetime(day=, month=, year=): midnight of that day
DateTime(y, m, d) == [year |-> y, month |-> m, day |-> d, tod |-> 0]

\* the constructor's range check (ValueError otherwise)
ValidYMD(y, m, d) ==
    /\ y \in 1..9999
    /\ m \in 1..12
    /\ d \in 1..DaysInMonth(y, m)

NextDay(d) ==
    IF d.day < DaysInMonth(d.year, d.month) THEN [d EXCEPT !.day = d.day + 1]
    ELSE IF d.month < 12 THEN [d EXCEPT !.month = d.month + 1, !.day = 1]
    ELSE [d EXCEPT !.year = d.year + 1, !.month = 1, !.day = 1]

PrevDay(d) ==
    IF d.day > 1 THEN [d EXCEPT !.day = d.day - 1]
    ELSE IF d.month > 1
         THEN [d EXCEPT !.month = d.month - 1,
                        !.day = DaysInMonth(d.year, d.month - 1)]
    ELSE [d EXCEPT !.year = d.year - 1, !.month = 12, !.day = 31]

\* d + dt.timedelta(days=k), k any integer; the time of day is kept
RECURSIVE AddDays(_, _)
AddDays(d, k) ==
    IF k = 0 THEN d
    ELSE IF k > 0 THEN AddDays(NextDay(d), k - 1)
    ELSE AddDays(PrevDay(d), k + 1)

\* (a - b).days: timedelta normalises to 0 <= seconds < one day, so the
\* day count is the floor of the difference
DaysBetween(a, b) ==
    ToOrdinal(a) - ToOrdinal(b) - (IF a.tod < b.tod THEN 1 ELSE 0)

\* a > b and a < b on datetimes
After(a, b) ==
    \/ ToOrdinal(a) > ToOrdinal(b)
    \/ ToOrdinal(a) = ToOrdinal(b) /\ a.tod > b.tod

Before(a, b) == After(b, a)

\* d.strftime("%m-%d-%Y")
Strftime(d) == <<d.month, d.day, d.year>>

\* dt.datetime.strptime(s, "%m-%d-%Y")
Strptime(s) == DateTime(s[3], s[1], s[2])

origin_date == DateTime(2020, 12, 2)

----------------------------------------------------------------------------
(* normalise_datetime *)

\* a token written with more than two digits is taken for the year
\* (dateutil _ymd.append: century_specified, label 'Y')
IsYearToken(t) == t >= 100

\* dateutil.parser.parse(date_string, dayfirst=...) on three numeric tokens
\* separated by "-": _ymd.resolve_ymd, three members, no month name, then
\* the construction of the datetime.  yearfirst is False.
DateutilParse(s, dayfirst) ==
    LET yidx == {i \in 1..3 : IsYearToken(s[i])}
        ymd ==
            IF s[1] > 31 \/ 1 \in yidx
            THEN \* 99-01-01
                 IF dayfirst /\ s[3] <= 12
                 THEN [year |-> s[1], day |-> s[2], month |-> s[3]]
                 ELSE [year |-> s[1], month |-> s[2], day |-> s[3]]
            ELSE IF s[1] > 12 \/ (dayfirst /\ s[2] <= 12)
            THEN \* 13-01-01
                 [day |-> s[1], month |-> s[2], year |-> s[3]]
            ELSE \* 01-13-01
                 [month |-> s[1], day |-> s[2], year |-> s[3]]
    IN  IF Cardinality(yidx) > 1
        THEN Raise("ValueError", <<"Year is already set">>)
        ELSE IF ~ValidYMD(ymd.year, ymd.month, ymd.day)
        THEN Raise("ValueError", <<"ParserError">>)
        ELSE Ok(DateTime(ymd.year, ymd.month, ymd.day))

normalise_datetime(date_string) ==
    LET p == DateutilParse(date_string, TRUE)
    IN  IF p.ok THEN Ok(Strftime(p.value))
        ELSE Raise("ValueError", <<"Invalid date format">>)

----------------------------------------------------------------------------
(* Text and numbers *)

Digits == <<"0", "1", "2", "3", "4", "5", "6", "7", "8", "9">>

IsDigit(c) == \E i \in 1..10 : Digits[i] = c

DigitValue(c) == (CHOOSE i \in 1..10 : Digits[i] = c) - 1

RECURSIVE DecimalValue(_)
DecimalValue(s) ==
    IF s = <<>> THEN 0
    ELSE 10 * DecimalValue(SubSeq(s, 1, Len(s) - 1)) + DigitValue(s[Len(s)])

\* int(s) on a cell: an optional sign and a run of decimal digits,
\* ValueError otherwise
int(s) ==
    LET signed == s # <<>> /\ s[1] \in {"+", "-"}
        digits == IF signed THEN Tail(s) ELSE s
    IN  IF digits # <<>> /\ \A i \in 1..Len(digits) : IsDigit(digits[i])
        THEN Ok(IF signed /\ s[1] = "-" THEN 0 - DecimalValue(digits)
                ELSE DecimalValue(digits))
        ELSE Raise("ValueError", <<"invalid literal for int()">>)

----------------------------------------------------------------------------
(* Files of the cache directory and JSON documents *)

\* the None default of cache_file, start_date and end_date
None == <<>>

\* a name of the cache directory under which there is no file / a file
NoFile == [exists |-> FALSE]
File(content) == [exists |-> TRUE, content |-> content]

\* json.dump of a dict: the document lists the key/value members
JsonDump(data) == {<<k, data[k]>> : k \in DOMAIN data}

\* a json.load that gives every member's list back without its last item
JsonLoad_Truncating(doc) ==
    [k \in {m[1] : m \in doc} |->
        SubSeq((CHOOSE m \in doc : m[1] = k)[2], 1,
               Len((CHOOSE m \in doc : m[1] = k)[2]) - 1)]

\* json.load: the dict the document's members spell out
JsonLoad(doc) ==
    [k \in {m[1] : m \in doc} |-> (CHOOSE m \in doc : m[1] = k)[2]]

----------------------------------------------------------------------------
(* parse_source_data and extract_source_data *)

\* "".join(source_data) read through csv.reader: a fresh list holding, for
\* each line, the list of its cells
parse_source_data(source_data) == [i \in 1..Len(source_data) |-> source_data[i]]

country_index == 3
starting_index == 7
number_of_field == 4

\* entry = list(map(lambda s: "0" if s == "" else s, entry))
ZeroEmpty(entry) ==
    [i \in 1..Len(entry) |-> IF entry[i] = <<>> THEN <<"0">> ELSE entry[i]]

\* Python's entry[k], 0-based
At(entry, k) == entry[k + 1]

\* <<h>> \o t for two outcomes, the first exception winning
ConsInt(h, t) ==
    IF ~h.ok THEN h
    ELSE IF ~t.ok THEN t
    ELSE Ok(<<h.value>> \o t.value)

\* list(map(int, cells)): the ints, or the first ValueError
RECURSIVE MapInt(_)
MapInt(cells) ==
    IF cells = <<>> THEN Ok(<<>>)
    ELSE ConsInt(int(Head(cells)), MapInt(Tail(cells)))

RECURSIVE AddFields(_, _, _)

\* AddField with "=" written for "+=": a later row of a country replaces
\* the earlier ones
AddField_Overwrite(tally, entry, i, v) ==
    IF ~v.ok THEN v
    ELSE AddFields([tally EXCEPT ![i + 1] = v.value], entry, i + 1)

\* data[country_name][i] += v, v being int(entry[starting_index + i]), and
\* on to the next field
AddField(tally, entry, i, v) ==
    IF ~v.ok THEN v
    ELSE AddFields([tally EXCEPT ![i + 1] = @ + v.value], entry, i + 1)

\* for i in range(number_of_field): data[country_name][i] += int(entry[starting_index + i])
AddFields(tally, entry, i) ==
    IF i = number_of_field THEN Ok(tally)
    ELSE AddField(tally, entry, i, int(At(entry, starting_index + i)))

\* data after data[country_name] += ... gave the tally r (line 150)
UpdateKey(data, country_name, r) ==
    IF ~r.ok THEN r ELSE Ok([data EXCEPT ![country_name] = r.value])

\* data after data[country_name] = r (line 152)
InsertKey(data, country_name, r) ==
    IF ~r.ok THEN r
    ELSE Ok([k \in DOMAIN data \cup {country_name} |->
               IF k = country_name THEN r.value ELSE data[k]])

\* ExtractEntry that skips a row whose country is already a key
ExtractEntry_FirstWins(data, rawEntry) ==
    LET entry == ZeroEmpty(rawEntry)
        country_name == At(entry, country_index)
    IN  IF country_name \in DOMAIN data
        THEN Ok(data)
        ELSE InsertKey(data, country_name,
                       MapInt(SubSeq(entry, starting_index + 1,
                                     starting_index + number_of_field)))

\* one pass of the loop body of lines 145-152 over `data`
ExtractEntry(data, rawEntry) ==
    LET entry == ZeroEmpty(rawEntry)
        country_name == At(entry, country_index)
    IN  IF country_name \in DOMAIN data
        THEN UpdateKey(data, country_name,
                       AddFields(data[country_name], entry, 0))
        ELSE InsertKey(data, country_name,
                       MapInt(SubSeq(entry, starting_index + 1,
                                     starting_index + number_of_field)))

RECURSIVE ExtractLoop(_, _)

\* the loop goes on after one pass gave r, unless that pass raised
ExtractRest(r, entries) ==
    IF ~r.ok THEN r ELSE ExtractLoop(r.value, entries)

\* for entry in parsed_data: ...   (stops at the first exception)
ExtractLoop(data, entries) ==
    IF entries = <<>> THEN Ok(data)
    ELSE ExtractRest(ExtractEntry(data, Head(entries)), Tail(entries))

EmptyDict == [k \in {} |-> <<>>]

\* ExtractFinish of a variant that opens cache_file for writing before the
\* loop: a failed loop leaves an empty document behind
ExtractFinish_OpenFirst(r, popped, cache_file, derived) ==
    [out |-> r,
     parsed_data |-> popped,
     derived |-> IF cache_file = None THEN derived
                 ELSE IF r.ok
                 THEN [derived EXCEPT ![cache_file] = File(JsonDump(r.value))]
                 ELSE [derived EXCEPT ![cache_file] = File(JsonDump(EmptyDict))]]

\* lines 153-156: the loop gave r; the dict is written to cache_file, if
\* any, only when the loop did not raise
ExtractFinish(r, popped, cache_file, derived) ==
    [out |-> r,
     parsed_data |-> popped,
     derived |-> IF ~r.ok \/ cache_file = None THEN derived
                 ELSE [derived EXCEPT ![cache_file] = File(JsonDump(r.value))]]

\* extract_source_data(parsed_data, cache_file, force) run against the
\* derived cache `derived`: its outcome, the caller's list afterwards and
\* the derived cache afterwards
extract_source_data(parsed_data, cache_file, force, derived) ==
    IF parsed_data = <<>>
    THEN \* parsed_data.pop(0) on an empty list
         [out |-> Raise("IndexError", "pop from empty list"),
          parsed_data |-> parsed_data, derived |-> derived]
    ELSE IF ~force /\ cache_file # None /\ derived[cache_file].exists
    THEN [out |-> Ok(JsonLoad(derived[cache_file].content)),
          parsed_data |-> Tail(parsed_data), derived |-> derived]
    ELSE ExtractFinish(ExtractLoop(EmptyDict, Tail(parsed_data)),
                       Tail(parsed_data), cache_file, derived)

----------------------------------------------------------------------------
(* create_source_url and the names derived from a URL *)

\* re.match(r"^(0[1-9]|1[012])-(0[1-9]|[12][0-9]|3[01])-20\d\d$", date_string)
MatchesDatePattern(date_string) ==
    /\ date_string[1] \in 1..12
    /\ date_string[2] \in 1..31
    /\ date_string[3] \in 2000..2099

create_source_url(date_string) ==
    IF ~MatchesDatePattern(date_string)
    THEN Raise("ValueError", <<"Invalid date format, must be MM-DD-YYY!">>)
    ELSE Ok(<<"csse_covid_19_daily_reports", date_string, "csv">>)

\* pathlib.Path(url).name
PathName(url) == <<url[2], url[3]>>

\* CacheDir / f"extracted-{pathlib.Path(url).name.split('.')[0]}.json"
ExtractedName(url) == <<"extracted", PathName(url)[1], "json">>

\* the days the model looks at: the day before origin_date up to today
WindowDays == {AddDays(origin_date, k) : k \in -1..TodaySpan}
DateStrings == {Strftime(d) : d \in WindowDays}
Urls == {create_source_url(s).value : s \in DateStrings}
CsvNames == {PathName(u) : u \in Urls}
JsonNames == {ExtractedName(u) : u \in Urls}

----------------------------------------------------------------------------
(* get_source_file, get_data_for_date, get_country_data, cache_data,        *)
(* get_new_changes.  Each operator takes the state it reads (the two        *)
(* caches, the upstream repository `rem`, the condition `net` of the        *)
(* network during the call) and gives the outcome, the caches afterwards,   *)
(* `fetched`: the URLs handed to urlopen, and `lookups`: the date strings   *)
(* handed to get_data_for_date, both in order.                              *)

\* the network during one call: up, answering every request with a server
\* error (an HTTPError that is not 404), or unreachable (a URLError)
Nets == {"up", "5xx", "down"}

\* url_req.urlopen(url), read to the end
urlopen(url, rem, net) ==
    IF net = "down" THEN Raise("URLError", "unreachable")
    ELSE IF net = "5xx" THEN Raise("HTTPError", 500)
    ELSE IF ~rem[url].exists THEN Raise("HTTPError", 404)
    ELSE Ok(rem[url].content)

\* SaveSource of a variant that opens the cache file for writing before the
\* retrieval: a failed retrieval leaves an empty file behind
SaveSource_OpenFirst(url, raw, string_data) ==
    [out |-> string_data,
     raw |-> IF string_data.ok
             THEN [raw EXCEPT ![PathName(url)] = File(string_data.value)]
             ELSE [raw EXCEPT ![PathName(url)] = File(<<>>)],
     fetched |-> <<url>>]

\* SaveSource that leaves an existing cache file as it is
SaveSource_KeepPrior(url, raw, string_data) ==
    [out |-> string_data,
     raw |-> IF string_data.ok /\ ~raw[PathName(url)].exists
             THEN [raw EXCEPT ![PathName(url)] = File(string_data.value)]
             ELSE raw,
     fetched |-> <<url>>]

\* lines 94-97: the lines urlopen gave are written to the cache file and
\* returned; an exception of urlopen leaves the file alone
SaveSource(url, raw, string_data) ==
    [out |-> string_data,
     raw |-> IF string_data.ok
             THEN [raw EXCEPT ![PathName(url)] = File(string_data.value)]
             ELSE raw,
     fetched |-> <<url>>]

\* get_source_file without lines 90-92: the cache file is never read back
get_source_file_NoCache(url, force, raw, rem, net) ==
    SaveSource(url, raw, urlopen(url, rem, net))

\* lines 88-97
get_source_file(url, force, raw, rem, net) ==
    IF ~force /\ raw[PathName(url)].exists
    THEN [out |-> Ok(raw[PathName(url)].content), raw |-> raw, fetched |-> <<>>]
    ELSE SaveSource(url, raw, urlopen(url, rem, net))

\* line 176: the outcome of extract_source_data is the outcome of the call
DataFromExtract(source_file, e) ==
    [out |-> e.out, raw |-> source_file.raw, derived |-> e.derived,
     fetched |-> source_file.fetched]

\* lines 174-176, get_source_file having given source_file
DataFromSource(url, force, derived, source_file) ==
    IF ~source_file.out.ok
    THEN [out |-> source_file.out, raw |-> source_file.raw,
          derived |-> derived, fetched |-> source_file.fetched]
    ELSE DataFromExtract(source_file,
             extract_source_data(parse_source_data(source_file.out.value),
                                 ExtractedName(url), force, derived))

get_data_for_date(date_string, force, raw, derived, rem, net) ==
    IF ~MatchesDatePattern(date_string) \/ ~create_source_url(date_string).ok
    THEN [out |-> Raise("ValueError", <<"Invalid date format, must be MM-DD-YYY!">>),
          raw |-> raw, derived |-> derived, fetched |-> <<>>]
    ELSE DataFromSource(create_source_url(date_string).value, force, derived,
             get_source_file(create_source_url(date_string).value, force,
                             raw, rem, net))

\* result[key] = value on an insertion-ordered dict
DictPut(result, key, value) ==
    IF \E k \in 1..Len(result) : result[k][1] = key
    THEN [k \in 1..Len(result) |->
            IF result[k][1] = key THEN <<key, value>> ELSE result[k]]
    ELSE Append(result, <<key, value>>)

\* what a call has done so far, r being its latest get_data_for_date(date_string)
Progress(st, date_string, r) ==
    [raw |-> r.raw, derived |-> r.derived,
     fetched |-> st.fetched \o r.fetched,
     lookups |-> Append(st.lookups, date_string)]

Started(raw, derived) ==
    [raw |-> raw, derived |-> derived, fetched |-> <<>>, lookups |-> <<>>]

\* a call ends with outcome `out`
Ended(out, st) ==
    [out |-> out, raw |-> st.raw, derived |-> st.derived,
     fetched |-> st.fetched, lookups |-> st.lookups]

RECURSIVE CountryLoop(_, _, _, _, _, _, _, _)

\* CountryStep that passes over a date whose aggregate lacks the country
CountryStep_SkipAbsent(country, start_date, i, n, result, st, rem, net, date_string, r) ==
    IF ~r.out.ok
    THEN Ended(r.out, Progress(st, date_string, r))
    ELSE IF country \notin DOMAIN r.out.value
    THEN CountryLoop(country, start_date, i + 1, n, result,
                     Progress(st, date_string, r), rem, net)
    ELSE CountryLoop(country, start_date, i + 1, n,
                     DictPut(result, date_string, r.out.value[country]),
                     Progress(st, date_string, r), rem, net)

\* lines 199-203, get_data_for_date(date_string) having given r
CountryStep(country, start_date, i, n, result, st, rem, net, date_string, r) ==
    IF ~r.out.ok
    THEN Ended(r.out, Progress(st, date_string, r))
    ELSE IF country \notin DOMAIN r.out.value
    THEN Ended(Raise("ValueError", country), Progress(st, date_string, r))
    ELSE CountryLoop(country, start_date, i + 1, n,
                     DictPut(result, date_string, r.out.value[country]),
                     Progress(st, date_string, r), rem, net)

\* lines 197-198
CountryDay(country, start_date, i, n, result, st, rem, net, date_string) ==
    CountryStep(country, start_date, i, n, result, st, rem, net, date_string,
                get_data_for_date(date_string, FALSE, st.raw, st.derived, rem, net))

\* for i in range((end_date - start_date).days + 1), from index i on
CountryLoop(country, start_date, i, n, result, st, rem, net) ==
    IF i >= n THEN Ended(Ok(result), st)
    ELSE CountryDay(country, start_date, i, n, result, st, rem, net,
                    Strftime(AddDays(start_date, i)))

\* lines 191-192
ClampEnd(end_date, latest) ==
    IF end_date = None THEN latest
    ELSE IF After(end_date, latest) THEN latest ELSE end_date

\* ClampStart without the comparison with origin_date
ClampStart_Unclamped(start_date) ==
    IF start_date = None THEN origin_date ELSE start_date

\* lines 193-194
ClampStart(start_date) ==
    IF start_date = None THEN origin_date
    ELSE IF Before(start_date, origin_date) THEN origin_date ELSE start_date

get_country_data(country, start_date, end_date, latest, raw, derived, rem, net) ==
    CountryLoop(country, ClampStart(start_date), 0,
                DaysBetween(ClampEnd(end_date, latest), ClampStart(start_date)) + 1,
                <<>>, Started(raw, derived), rem, net)

RECURSIVE CacheLoop(_, _, _, _, _, _, _)

\* lines 225-230, get_data_for_date(date_string, force) having given r:
\* an HTTPError is passed over, any other exception ends the call
CacheStep(date, i, no_of_days, force, st, rem, net, date_string, r) ==
    IF ~r.out.ok /\ r.out.type # "HTTPError"
    THEN Ended(r.out, Progress(st, date_string, r))
    ELSE CacheLoop(AddDays(date, -1), i + 1, no_of_days, force,
                   Progress(st, date_string, r), rem, net)

CacheDay(date, i, no_of_days, force, st, rem, net, date_string) ==
    CacheStep(date, i, no_of_days, force, st, rem, net, date_string,
              get_data_for_date(date_string, force, st.raw, st.derived, rem, net))

\* for i in range(no_of_days), from index i on
CacheLoop(date, i, no_of_days, force, st, rem, net) ==
    IF i >= no_of_days THEN Ended(Ok(None), st)
    ELSE CacheDay(date, i, no_of_days, force, st, rem, net, Strftime(date))

\* ClampDays without the comparison with origin_date
ClampDays_Unclamped(no_of_days, date) == no_of_days

\* lines 221-222
ClampDays(no_of_days, date) ==
    IF DaysBetween(date, origin_date) < no_of_days
    THEN DaysBetween(date, origin_date) ELSE no_of_days

cache_data(no_of_days, force, latest, raw, derived, rem, net) ==
    CacheLoop(latest, 0, ClampDays(no_of_days, latest), force,
              Started(raw, derived), rem, net)

\* the values of an insertion-ordered dict, in order
Values(result) == [k \in 1..Len(result) |-> result[k][2]]

\* the subtraction with its operands exchanged
ArrayMinus_Reversed(a, b) == [k \in 1..Len(a) |-> b[k] - a[k]]

\* today - yesterday on numpy arrays
ArrayMinus(a, b) == [k \in 1..Len(a) |-> a[k] - b[k]]

\* lines 235-238, get_country_data having given r
Changes(r) ==
    IF ~r.out.ok THEN r
    ELSE IF Len(r.out.value) < 2
    THEN [r EXCEPT !.out = Raise("ValueError", <<"not enough values to unpack">>)]
    ELSE IF Len(r.out.value) > 2
    THEN [r EXCEPT !.out = Raise("ValueError", <<"too many values to unpack">>)]
    ELSE [r EXCEPT !.out = Ok(ArrayMinus(Values(r.out.value)[2],
                                         Values(r.out.value)[1]))]

get_new_changes(country, date, latest, raw, derived, rem, net) ==
    Changes(get_country_data(country, AddDays(date, -1), date, latest,
                             raw, derived, rem, net))

----------------------------------------------------------------------------
(* Reports *)

X == <<"X">>
Y == <<"Y">>

\* a line of a daily report: FIPS, Admin2, Province_State, Country_Region,
\* Last_Update, Lat, Long_, Confirmed, Deaths, Recovered, Active
Row(country, confirmed, deaths, recovered, active) ==
    << <<>>, <<>>, <<>>, country, <<>>, <<>>, <<>>,
       confirmed, deaths, recovered, active >>

Header ==
    Row(<<"C","o","u","n","t","r","y">>, <<"C">>, <<"D">>, <<"R">>, <<"A">>)

\* the data rows reports are made of: two regions of X (one with an empty
\* cell), one of Y (with an empty cell, a two-digit and a negative one), a
\* row of X with a non-numeric cell, and a row whose Country_Region cell is
\* empty
RowPool ==
    { Row(X, <<"1">>, <<"2">>, <<"3">>, <<"4">>),
      Row(X, <<"5">>, <<>>, <<"0">>, <<"1">>),
      Row(Y, <<>>, <<"1","0">>, <<"0">>, <<"-","2">>),
      Row(X, <<"3">>, <<"x">>, <<"0">>, <<"0">>),
      Row(<<>>, <<"7">>, <<"0">>, <<"0">>, <<"7">>) }

RECURSIVE SeqsUpTo(_, _)
SeqsUpTo(S, n) ==
    IF n = 0 THEN {<<>>}
    ELSE LET shorter == SeqsUpTo(S, n - 1)
         IN  shorter \cup {Append(q, e) : q \in shorter, e \in S}

\* what a caller hands to extract_source_data: nothing at all, or a header
\* followed by data rows
ParsedInputs == {<<>>} \cup {<<Header>> \o q : q \in SeqsUpTo(RowPool, MaxRows)}

\* str(n) for a natural number n
RECURSIVE Numeral(_)
Numeral(n) ==
    IF n < 10 THEN <<Digits[n + 1]>>
    ELSE Numeral(n \div 10) \o <<Digits[(n % 10) + 1]>>

\* the report of day d with two regions of X and one of Y: the tally of X
\* is (10j + j*j, j + 1, 0, j + 2) for the j-th day of the month
FullReport(d) ==
    << Header,
       Row(X, Numeral(10 * d.day), Numeral(d.day), <<>>, <<"2">>),
       Row(Y, Numeral(d.day), <<"0">>, <<"1">>, <<>>),
       Row(X, Numeral(d.day * d.day), <<"1">>, <<"0">>, Numeral(d.day)) >>

\* the report of day d in which X does not occur
NoXReport(d) ==
    << Header, Row(Y, Numeral(d.day), <<"0">>, <<"1">>, <<>>) >>

UrlOf(d) == create_source_url(Strftime(d)).value

\* what the upstream repository may hold for day d
ReportsOf(d) == {File(FullReport(d)), File(NoXReport(d))}

\* the upstream repository at load: the day before origin_date is there;
\* each later day has one of its reports or none yet
RemoteScenarios ==
    LET choice(d) == IF Before(d, origin_date) THEN {File(FullReport(d))}
                     ELSE ReportsOf(d) \cup {NoFile}
        all == UNION {choice(d) : d \in WindowDays}
    IN  {rem \in [Urls -> all] : \A d \in WindowDays : rem[UrlOf(d)] \in choice(d)}

----------------------------------------------------------------------------
(* States and steps shared by the specifications *)

\* a loaded module with an empty cache directory and nothing published
Quiet ==
    /\ today = origin_date
    /\ latest_date = origin_date
    /\ pc = "ready"
    /\ remote = [u \in Urls |-> NoFile]
    /\ rawCache = [n \in CsvNames |-> NoFile]
    /\ derivedCache = [n \in JsonNames |-> NoFile]
    /\ call = Idle

\* control returns to the caller
Return ==
    /\ call # Idle
    /\ call' = Idle
    /\ UNCHANGED <<today, latest_date, pc, remote, rawCache, derivedCache>>

----------------------------------------------------------------------------
(* Specification of normalise_datetime alone *)

TextYears == {2020, 2021}
DateTexts == {<<a, b, y>> : a \in 1..MaxToken, b \in 1..MaxToken, y \in TextYears}

NormaliseCall ==
    /\ pc = "ready" /\ call = Idle
    /\ \E s \in DateTexts :
         call' = [op |-> "normalise_datetime", date_string |-> s,
                  out |-> normalise_datetime(s)]
    /\ UNCHANGED <<today, latest_date, pc, remote, rawCache, derivedCache>>

NextNormalise == NormaliseCall \/ Return

SpecNormalise == Quiet /\ [][NextNormalise]_vars

----------------------------------------------------------------------------
(* Specification of extract_source_data alone *)

\* the cache_file arguments: None, or the derived-cache name of origin_date
CacheFiles ==
    {None, ExtractedName(create_source_url(Strftime(origin_date)).value)}

\* the call `c` to extract_source_data ends with r
FinishExtract(c, r) ==
    /\ call' = [c EXCEPT !.out = r.out, !.parsed_after = r.parsed_data]
    /\ derivedCache' = r.derived

\* a caller's extract_source_data(parsed_data, cache_file, force) with one
\* of `files` for cache_file
ExtractCallOn(files) ==
    /\ pc = "ready" /\ call = Idle
    /\ \E parsed_data \in ParsedInputs, cache_file \in files, force \in BOOLEAN :
         FinishExtract([op |-> "extract_source_data", parsed_data |-> parsed_data,
                        cache_file |-> cache_file, force |-> force,
                        out |-> None, parsed_after |-> <<>>],
                       extract_source_data(parsed_data, cache_file, force,
                                           derivedCache))
    /\ UNCHANGED <<today, latest_date, pc, remote, rawCache>>

ExtractCall == ExtractCallOn(CacheFiles)

NextExtract == ExtractCall \/ Return

SpecExtract == Quiet /\ [][NextExtract]_vars

----------------------------------------------------------------------------
(* Specification of the aggregation alone: extract_source_data called
   without a cache file, so that it is a function of the rows *)

AggregateCall == ExtractCallOn({None})

NextAggregate == AggregateCall \/ Return

SpecAggregate == Quiet /\ [][NextAggregate]_vars

----------------------------------------------------------------------------
(* The loaded module and its API *)

Init ==
    /\ today = [AddDays(origin_date, TodaySpan) EXCEPT !.tod = LoadTime]
    /\ latest_date = today
    /\ pc = "probe"
    /\ remote \in RemoteScenarios
    /\ rawCache = [n \in CsvNames |-> NoFile]
    /\ derivedCache = [n \in JsonNames |-> NoFile]
    /\ call = Idle

\* lines 104-107, get_source_file having given r
Probed(r) ==
    /\ rawCache' = r.raw
    /\ IF r.out.ok
       THEN pc' = "ready" /\ UNCHANGED latest_date
       ELSE IF r.out.type = "HTTPError"
       THEN latest_date' = AddDays(latest_date, -1) /\ UNCHANGED pc
       ELSE pc' = "crashed" /\ UNCHANGED latest_date

\* one iteration of the module-level loop of lines 101-107
ProbeStep ==
    /\ pc = "probe"
    /\ Strftime(latest_date) \in DateStrings
    /\ \E net \in Nets :
         Probed(get_source_file(UrlOf(latest_date), FALSE, rawCache, remote, net))
    /\ UNCHANGED <<today, remote, derivedCache, call>>

\* the call `c` ends with r: its outcome is recorded, the caches are as it
\* leaves them
Finish(c, r) ==
    /\ call' = [c EXCEPT !.out = r.out, !.fetched = r.fetched]
    /\ rawCache' = r.raw
    /\ derivedCache' = r.derived

FinishRange(c, r) ==
    /\ call' = [c EXCEPT !.out = r.out, !.fetched = r.fetched,
                         !.lookups = r.lookups]
    /\ rawCache' = r.raw
    /\ derivedCache' = r.derived

FinishFetch(c, r) ==
    /\ call' = [c EXCEPT !.out = r.out, !.fetched = r.fetched]
    /\ rawCache' = r.raw

\* a caller's get_source_file(url, force) for the report of one of `days`
GetSourceFileOn(days) ==
    /\ pc = "ready" /\ call = Idle
    /\ \E url \in {UrlOf(d) : d \in days}, force \in BOOLEAN, net \in Nets :
         FinishFetch([op |-> "get_source_file", url |-> url, force |-> force,
                      net |-> net, before |-> rawCache[PathName(url)],
                      out |-> None, fetched |-> <<>>],
                     get_source_file(url, force, rawCache, remote, net))
    /\ UNCHANGED <<today, latest_date, pc, remote, derivedCache>>

\* a caller's get_data_for_date(date_string, force) for one of `days`
GetDataForDateOn(days) ==
    /\ pc = "ready" /\ call = Idle
    /\ \E date_string \in {Strftime(d) : d \in days}, force \in BOOLEAN,
          net \in Nets :
         Finish([op |-> "get_data_for_date", date_string |-> date_string,
                 force |-> force, net |-> net, out |-> None, fetched |-> <<>>],
                get_data_for_date(date_string, force, rawCache, derivedCache,
                                  remote, net))
    /\ UNCHANGED <<today, latest_date, pc, remote>>

\* the days callers name directly in the whole-pipeline specification
DirectDays == {origin_date}

GetSourceFileCall == GetSourceFileOn(DirectDays)

GetDataForDateCall == GetDataForDateOn(DirectDays)

QueryCountries == {X}
StartDates == {None} \cup WindowDays
EndDates == {None} \cup {AddDays(origin_date, k) : k \in 0..(TodaySpan + 1)}
ChangeDates == {AddDays(origin_date, k) : k \in 0..(TodaySpan + 1)}
DayCounts == 0..(TodaySpan + 1)

GetCountryDataCall ==
    /\ pc = "ready" /\ call = Idle
    /\ \E country \in QueryCountries, start_date \in StartDates,
          end_date \in EndDates, net \in Nets :
         FinishRange([op |-> "get_country_data", country |-> country,
                      start_date |-> start_date, end_date |-> end_date,
                      net |-> net, out |-> None, fetched |-> <<>>, lookups |-> <<>>],
                     get_country_data(country, start_date, end_date, latest_date,
                                      rawCache, derivedCache, remote, net))
    /\ UNCHANGED <<today, latest_date, pc, remote>>

GetNewChangesCall ==
    /\ pc = "ready" /\ call = Idle
    /\ \E country \in QueryCountries, date \in ChangeDates, net \in Nets :
         FinishRange([op |-> "get_new_changes", country |-> country,
                      date |-> date, net |-> net,
                      out |-> None, fetched |-> <<>>, lookups |-> <<>>],
                     get_new_changes(country, date, latest_date,
                                     rawCache, derivedCache, remote, net))
    /\ UNCHANGED <<today, latest_date, pc, remote>>

CacheDataCall ==
    /\ pc = "ready" /\ call = Idle
    /\ \E no_of_days \in DayCounts, force \in BOOLEAN, net \in Nets :
         FinishRange([op |-> "cache_data", no_of_days |-> no_of_days,
                      force |-> force, net |-> net,
                      out |-> None, fetched |-> <<>>, lookups |-> <<>>],
                     cache_data(no_of_days, force, latest_date,
                                rawCache, derivedCache, remote, net))
    /\ UNCHANGED <<today, latest_date, pc, remote>>

Next ==
    \/ ProbeStep
    \/ GetSourceFileCall
    \/ GetDataForDateCall
    \/ GetCountryDataCall
    \/ GetNewChangesCall
    \/ CacheDataCall
    \/ Return

Spec == Init /\ [][Next]_vars

----------------------------------------------------------------------------
(* The fetch layer against an upstream that publishes and revises reports *)

\* the days callers name in the fetch-layer specification
FetchDays == {origin_date, AddDays(origin_date, 1)}

\* the upstream repository publishes the report of a day, or replaces a
\* published report by a revision
Upstream ==
    /\ pc = "ready" /\ call = Idle
    /\ \E d \in FetchDays : \E report \in ReportsOf(d) :
         /\ remote[UrlOf(d)] # report
         /\ remote' = [remote EXCEPT ![UrlOf(d)] = report]
    /\ UNCHANGED <<today, latest_date, pc, rawCache, derivedCache, call>>

GetSourceFileFetch == GetSourceFileOn(FetchDays)

GetDataForDateFetch == GetDataForDateOn(FetchDays)

NextFetch ==
    \/ ProbeStep
    \/ Upstream
    \/ GetSourceFileFetch
    \/ GetDataForDateFetch
    \/ Return

SpecFetch == Init /\ [][NextFetch]_vars

----------------------------------------------------------------------------
(* Reference notions the claims are stated with *)

\* a cell is a decimal numeral, with or without a sign
IsNumeral(cell) ==
    /\ cell # <<>>
    /\ \A i \in 2..Len(cell) : IsDigit(cell[i])
    /\ \/ IsDigit(cell[1])
       \/ cell[1] \in {"+", "-"} /\ Len(cell) > 1

IsNumericCell(cell) == cell = <<>> \/ IsNumeral(cell)

\* the number a numeric cell stands for, an empty cell counting as 0
CellNumber(cell) ==
    IF cell = <<>> THEN 0
    ELSE IF cell[1] = "-" THEN 0 - DecimalValue(Tail(cell))
    ELSE IF cell[1] = "+" THEN DecimalValue(Tail(cell))
    ELSE DecimalValue(cell)

\* every tally cell of every row is numeric or empty
AllNumeric(rows) ==
    \A k \in 1..Len(rows), i \in 0..(number_of_field - 1) :
        IsNumericCell(At(rows[k], starting_index + i))

CountriesOf(rows) == {At(rows[k], country_index) : k \in 1..Len(rows)}

\* the sum of field i (0-based) over the rows of country c
RECURSIVE FieldSum(_, _, _)
FieldSum(rows, c, i) ==
    IF rows = <<>> THEN 0
    ELSE (IF At(Head(rows), country_index) = c
          THEN CellNumber(At(Head(rows), starting_index + i)) ELSE 0)
         + FieldSum(Tail(rows), c, i)

\* the rows q rearranged by the permutation p of 1..Len(q)
Rearranged(q, p) == [k \in 1..Len(q) |-> q[p[k]]]

\* the data rows of the report published for day d
PublishedRows(d) == Tail(remote[UrlOf(d)].content)

\* a report is published for day d and country c occurs in it
HasTally(c, d) ==
    /\ Strftime(d) \in DateStrings
    /\ remote[UrlOf(d)].exists
    /\ c \in CountriesOf(PublishedRows(d))

\* a report is published for day d and country c does not occur in it
LacksCountry(c, d) ==
    /\ Strftime(d) \in DateStrings
    /\ remote[UrlOf(d)].exists
    /\ c \notin CountriesOf(PublishedRows(d))

\* the four totals of country c in the report published for day d
Tally(c, d) ==
    [i \in 1..number_of_field |-> FieldSum(PublishedRows(d), c, i - 1)]

\* the day with ordinal o
DayAt(o) == AddDays(origin_date, o - ToOrdinal(origin_date))

\* the days of [max(start, origin_date), min(end, latest_date)] in
\* ascending order, an absent start being origin_date and an absent end
\* latest_date
RangeDays(start, end) ==
    LET lo == IF start = None \/ ToOrdinal(start) < ToOrdinal(origin_date)
              THEN ToOrdinal(origin_date) ELSE ToOrdinal(start)
        hi == IF end = None \/ ToOrdinal(end) > ToOrdinal(latest_date)
              THEN ToOrdinal(latest_date) ELSE ToOrdinal(end)
    IN  IF hi < lo THEN <<>> ELSE [k \in 1..(hi - lo + 1) |-> DayAt(lo + k - 1)]

\* the report of day d can be looked up under network condition net: it is
\* in the raw cache, or the network is up and the report is published
CanLookUp(d, net) ==
    /\ Strftime(d) \in DateStrings
    /\ \/ rawCache[PathName(UrlOf(d))].exists
       \/ net = "up" /\ remote[UrlOf(d)].exists

----------------------------------------------------------------------------
(* Claims about the fetch layer (SpecFetch) *)

\* C1: after get_data_for_date(D) without force has returned an aggregate,
\* a second get_data_for_date(D) without force, under any network
\* condition, returns an equal aggregate, performs no remote retrieval and
\* changes neither the raw cache nor the derived cache.
C1_RepeatLookupIsCached ==
    ( /\ call.op = "get_data_for_date"
      /\ ~call.force
      /\ call.out.ok )
    => \A net \in Nets :
         LET again == get_data_for_date(call.date_string, FALSE,
                                        rawCache, derivedCache, remote, net)
         IN  /\ again.out = call.out
             /\ again.fetched = <<>>
             /\ again.raw = rawCache
             /\ again.derived = derivedCache

\* C1 witness: a get_data_for_date without force for a date of
\* [origin_date, latest_date] fetched the report and returned an aggregate
\* with a tally for X.
C1_Witness ==
    /\ call.op = "get_data_for_date"
    /\ ~call.force
    /\ call.out.ok
    /\ call.fetched # <<>>
    /\ X \in DOMAIN call.out.value
    /\ ToOrdinal(Strptime(call.date_string)) >= ToOrdinal(origin_date)
    /\ ToOrdinal(Strptime(call.date_string)) <= ToOrdinal(latest_date)

\* C2: get_source_file(url, force=False) called when the raw cache holds a
\* file for url returns exactly that file's content, performs no remote
\* retrieval and leaves the raw cache unchanged.
C2_CacheHitFrame ==
    [][ ( /\ call'.op = "get_source_file"
          /\ ~call'.force
          /\ rawCache[PathName(call'.url)].exists )
        => ( /\ call'.out = Ok(rawCache[PathName(call'.url)].content)
             /\ call'.fetched = <<>>
             /\ rawCache' = rawCache ) ]_vars

\* C2 witness: a get_source_file without force returned the cached file
\* although the network was up and upstream held a different revision.
C2_Witness ==
    /\ call.op = "get_source_file"
    /\ ~call.force
    /\ call.before.exists
    /\ call.net = "up"
    /\ remote[call.url].exists
    /\ remote[call.url].content # call.before.content
    /\ call.out = Ok(call.before.content)

\* C3: get_source_file(url, force) called with force=True, or with no raw
\* cache file for url, performs a remote retrieval of url; the retrieval
\* succeeds when the network is up and the report is published, and then
\* the raw cache file for url afterwards holds the retrieved content, any
\* prior file being overwritten and no other file touched, and that content
\* is the returned value.
C3_FetchStoresAndReturns ==
    [][ ( /\ call'.op = "get_source_file"
          /\ (call'.force \/ ~rawCache[PathName(call'.url)].exists) )
        => ( /\ call'.fetched = <<call'.url>>
             /\ (call'.net = "up" /\ remote[call'.url].exists) => call'.out.ok
             /\ call'.out.ok =>
                  /\ call'.out.value = remote[call'.url].content
                  /\ rawCache' = [rawCache EXCEPT ![PathName(call'.url)] =
                                     File(remote[call'.url].content)] ) ]_vars

\* C3 witness: a forced get_source_file replaced a cached file by a
\* different revision and returned the new content.
C3_Witness ==
    /\ call.op = "get_source_file"
    /\ call.force
    /\ call.before.exists
    /\ call.out.ok
    /\ call.out.value # call.before.content
    /\ rawCache[PathName(call.url)] = File(call.out.value)

----------------------------------------------------------------------------
(* Claims about extract_source_data (SpecExtract, SpecAggregate) *)

\* C4: extract_source_data(rows, cacheKey, force=false) called when a
\* derived-cache entry exists under cacheKey returns that entry for every
\* value of rows, the empty row sequence included, and leaves the derived
\* cache unchanged.
C4_CacheHitReturnsEntry ==
    [][ ( /\ call'.op = "extract_source_data"
          /\ ~call'.force
          /\ call'.cache_file # None
          /\ derivedCache[call'.cache_file].exists )
        => ( /\ call'.out = Ok(JsonLoad(derivedCache[call'.cache_file].content))
             /\ derivedCache' = derivedCache ) ]_vars

\* C5: when extract_source_data aggregates (force, no cache_file, or no
\* derived-cache entry) and returns, the result has exactly one key for each
\* country name occurring in the data rows, and each of the four fields of
\* each such country is the sum of that field over the data rows with that
\* country name; the header row contributes nothing.
C5_AggregateIsFieldwiseSum ==
    [][ ( /\ call'.op = "extract_source_data"
          /\ call'.parsed_data # <<>>
          /\ \/ call'.force
             \/ call'.cache_file = None
             \/ ~derivedCache[call'.cache_file].exists
          /\ call'.out.ok )
        => LET rows == Tail(call'.parsed_data)
               out == call'.out
           IN  /\ DOMAIN out.value = CountriesOf(rows)
               /\ \A c \in CountriesOf(rows) :
                    \A i \in 0..(number_of_field - 1) :
                       out.value[c][i + 1] = FieldSum(rows, c, i) ]_vars

\* every data row has a non-empty Country_Region cell
AllNamed(rows) == \A k \in 1..Len(rows) : At(rows[k], country_index) # <<>>

\* C5 for reports in which every data row names a country: the aggregation
\* returns exactly when every tally cell is numeric or empty (it raises
\* ValueError otherwise), and then the keys are the country names of the
\* data rows and every field is the sum over the rows of that country.
C5_NamedRowsAreSummed ==
    [][ ( /\ call'.op = "extract_source_data"
          /\ call'.parsed_data # <<>>
          /\ \/ call'.force
             \/ call'.cache_file = None
             \/ ~derivedCache[call'.cache_file].exists
          /\ AllNamed(Tail(call'.parsed_data)) )
        => LET rows == Tail(call'.parsed_data)
               out == call'.out
           IN  IF AllNumeric(rows)
               THEN /\ out.ok
                    /\ DOMAIN out.value = CountriesOf(rows)
                    /\ \A c \in CountriesOf(rows) :
                         \A i \in 0..(number_of_field - 1) :
                            out.value[c][i + 1] = FieldSum(rows, c, i)
               ELSE ~out.ok /\ out.type = "ValueError" ]_vars

\* the report with the rows X (1,2,3,4) and X (5,"",0,1) was aggregated to
\* X -> (6,2,3,5)
C5_NamedRowsWitness ==
    /\ call.op = "extract_source_data"
    /\ call.force
    /\ call.parsed_data = << Header,
                             Row(X, <<"1">>, <<"2">>, <<"3">>, <<"4">>),
                             Row(X, <<"5">>, <<>>, <<"0">>, <<"1">>) >>
    /\ call.out.ok
    /\ call.out.value[X] = <<6, 2, 3, 5>>

\* C6: whenever extract_source_data has aggregated a report, aggregating
\* the same report with its data rows in any other order (header kept
\* first) gives the same outcome: the same countries with the same four
\* totals, or a ValueError either way.
C6_RowOrderIrrelevant ==
    ( /\ call.op = "extract_source_data"
      /\ call.parsed_data # <<>>
      /\ (call.force \/ call.cache_file = None) )
    => LET rows == Tail(call.parsed_data)
       IN  \A p \in Permutations(1..Len(rows)) :
             LET other == extract_source_data(
                              <<Head(call.parsed_data)>> \o Rearranged(rows, p),
                              None, TRUE, derivedCache).out
             IN  IF call.out.ok THEN other = call.out
                 ELSE ~other.ok /\ other.type = call.out.type

\* C6 witness: a report of three data rows, two of X around one of Y, whose
\* rearrangements differ from it, was aggregated.
C6_Witness ==
    /\ call.op = "extract_source_data"
    /\ call.cache_file = None
    /\ call.out.ok
    /\ Len(call.parsed_data) = 4
    /\ At(call.parsed_data[2], country_index) = X
    /\ At(call.parsed_data[3], country_index) = Y
    /\ At(call.parsed_data[4], country_index) = X
    /\ call.parsed_data[2] # call.parsed_data[4]

----------------------------------------------------------------------------
(* Claims about normalise_datetime (SpecNormalise) *)

\* C7: normalise_datetime is idempotent: whenever it accepts a date text d,
\* normalise_datetime(normalise_datetime(d)) = normalise_datetime(d).
C7_NormaliseIdempotent ==
    (call.op = "normalise_datetime" /\ call.out.ok)
    => normalise_datetime(call.out.value) = call.out

----------------------------------------------------------------------------
(* Claims about get_country_data and get_new_changes (Spec) *)

\* C8: a get_country_data(country, start, end) that returns normally yields
\* a series with one entry for each day of
\* [max(start, origin_date), min(end, latest_date)] (absent start =
\* origin_date, absent end = latest_date), none skipped, in ascending
\* order, keyed by the day's MM-DD-YYYY text and holding that day's tally
\* of the country; no key lies outside [origin_date, latest_date].
C8_SeriesCoversClampedRange ==
    ( /\ call.op = "get_country_data"
      /\ call.out.ok )
    => LET days == RangeDays(call.start_date, call.end_date)
           series == call.out.value
       IN  /\ Len(series) = Len(days)
           /\ \A k \in 1..Len(days) :
                /\ HasTally(call.country, days[k])
                /\ series[k] = <<Strftime(days[k]), Tally(call.country, days[k])>>
           /\ \A k \in 1..Len(series) :
                /\ ToOrdinal(Strptime(series[k][1])) >= ToOrdinal(origin_date)
                /\ ToOrdinal(Strptime(series[k][1])) <= ToOrdinal(latest_date)

\* C8 witness: a call with start before origin_date and end after
\* latest_date returned a series of more than one day, from origin_date to
\* latest_date.
C8_Witness ==
    /\ call.op = "get_country_data"
    /\ call.out.ok
    /\ call.start_date = AddDays(origin_date, -1)
    /\ call.end_date = AddDays(origin_date, TodaySpan + 1)
    /\ Len(call.out.value) >= 2
    /\ call.out.value[1][1] = Strftime(origin_date)
    /\ call.out.value[Len(call.out.value)][1] = Strftime(latest_date)

\* C9: when the country is absent from the report of some day of the
\* clamped range, and the reports of the days up to the earliest such day
\* can be looked up, get_country_data raises ValueError(country):
\* get_data_for_date has been called for the days from the range start up
\* to that day, in ascending order, and for no later day, and no series is
\* returned, whatever the later days hold.
C9_FailsAtEarliestAbsentDate ==
    [][ call'.op = "get_country_data"
        => LET days == RangeDays(call'.start_date, call'.end_date)
           IN  \A k \in 1..Len(days) :
                 ( /\ LacksCountry(call'.country, days[k])
                   /\ \A j \in 1..(k - 1) : ~LacksCountry(call'.country, days[j])
                   /\ \A j \in 1..k : CanLookUp(days[j], call'.net) )
                 => ( /\ call'.out = Raise("ValueError", call'.country)
                      /\ call'.lookups = [j \in 1..k |-> Strftime(days[j])] ) ]_vars

\* C9 witness: a call over a range whose second day lacks X while a later
\* day has it raised ValueError(X) after two lookups.
C9_Witness ==
    /\ call.op = "get_country_data"
    /\ call.out = Raise("ValueError", X)
    /\ Len(call.lookups) = 2
    /\ call.lookups[1] = Strftime(origin_date)
    /\ HasTally(X, origin_date)
    /\ LacksCountry(X, AddDays(origin_date, 1))
    /\ HasTally(X, AddDays(origin_date, 2))
    /\ ToOrdinal(latest_date) >= ToOrdinal(origin_date) + 2
    /\ call.end_date = None

\* C10: for a date d with origin_date <= d - 1 day and d <= latest_date
\* such that the country has a tally in the reports of d and of d - 1 day
\* and both reports can be looked up, get_new_changes(country, d) returns
\* tally(d) - tally(d - 1 day), field by field.
C10_ChangesAreFieldwiseDifference ==
    [][ ( /\ call'.op = "get_new_changes"
          /\ ToOrdinal(origin_date) <= ToOrdinal(call'.date) - 1
          /\ ToOrdinal(call'.date) <= ToOrdinal(latest_date)
          /\ HasTally(call'.country, call'.date)
          /\ HasTally(call'.country, AddDays(call'.date, -1))
          /\ CanLookUp(call'.date, call'.net)
          /\ CanLookUp(AddDays(call'.date, -1), call'.net) )
        => call'.out =
             Ok([i \in 1..number_of_field |->
                   Tally(call'.country, call'.date)[i]
                   - Tally(call'.country, AddDays(call'.date, -1))[i]]) ]_vars

\* C10 witness: get_new_changes(X, 12-03-2020) returned (15, 1, 0, 1), the
\* tallies of X being (24, 3, 0, 4) on 12-02-2020 and (39, 4, 0, 5) on
\* 12-03-2020.
C10_Witness ==
    /\ call.op = "get_new_changes"
    /\ call.date = AddDays(origin_date, 1)
    /\ HasTally(X, origin_date)
    /\ HasTally(X, AddDays(origin_date, 1))
    /\ Tally(X, origin_date) = <<24, 3, 0, 4>>
    /\ Tally(X, AddDays(origin_date, 1)) = <<39, 4, 0, 5>>
    /\ call.out = Ok(<<15, 1, 0, 1>>)

----------------------------------------------------------------------------
(* Claims about the failures of get_new_changes and cache_data (Spec) *)

\* day d lies in [origin_date, latest_date]
InWindow(d) ==
    /\ ToOrdinal(origin_date) <= ToOrdinal(d)
    /\ ToOrdinal(d) <= ToOrdinal(latest_date)

\* day d is unavailable for country c: it lies outside
\* [origin_date, latest_date], or its report lacks the country
Unavailable(c, d) == ~InWindow(d) \/ LacksCountry(c, d)

\* C11: whenever date or date - 1 day is unavailable for the country (date
\* = origin_date and date later than latest_date included), and the reports
\* of those of the two days that lie in [origin_date, latest_date] can be
\* looked up, get_new_changes(country, date) raises ValueError(country), the
\* error of get_country_data for a day without the country: no other error
\* and no result.
C11_UnavailableDayIsCountryNotFound ==
    [][ ( /\ call'.op = "get_new_changes"
          /\ \/ Unavailable(call'.country, call'.date)
             \/ Unavailable(call'.country, AddDays(call'.date, -1))
          /\ \A d \in {call'.date, AddDays(call'.date, -1)} :
               InWindow(d) => CanLookUp(d, call'.net) )
        => call'.out = Raise("ValueError", call'.country) ]_vars

\* the lookup of date string s, made with `force` under network condition
\* net, has to fetch the report
NeedsFetch(s, force) == force \/ ~rawCache[PathName(create_source_url(s).value)].exists

\* C12: in a cache_data run, a day whose report is not found upstream (404)
\* is passed over and the walk goes on, while a day whose lookup fails in
\* any other way (a server error that is not 404, an unreachable network)
\* ends the run: it is the last day looked up and its error is the outcome
\* of cache_data.
C12_OnlyNotFoundIsSuppressed ==
    [][ call'.op = "cache_data"
        => \A k \in 1..Len(call'.lookups) :
             LET s == call'.lookups[k]
                 url == create_source_url(s).value
             IN  /\ ( NeedsFetch(s, call'.force) /\ call'.net # "up" )
                      => ( /\ k = Len(call'.lookups)
                           /\ call'.out = urlopen(url, remote, call'.net) )
                 /\ ( NeedsFetch(s, call'.force) /\ call'.net = "up"
                      /\ ~remote[url].exists )
                      => ( k < Len(call'.lookups) \/ call'.out.ok ) ]_vars

\* C13: a cache_data(n, force) run looks up at most n dates, they are
\* latest_date and the days before it, consecutive and in descending
\* order, none earlier than origin_date or later than latest_date, and it
\* never ends with the not-found error (404) of a day: with the network up
\* it returns normally whatever days are missing upstream.
C13_WalkIsBoundedAndTolerant ==
    call.op = "cache_data"
    => /\ Len(call.lookups) <= call.no_of_days
       /\ \A k \in 1..Len(call.lookups) :
            /\ call.lookups[k] = Strftime(AddDays(latest_date, 1 - k))
            /\ InWindow(Strptime(call.lookups[k]))
       /\ ~(call.out = Raise("HTTPError", 404))
       /\ call.net = "up" => call.out.ok

\* C13 witness: a cache_data run asked for more days than lie between
\* origin_date and latest_date walked over a day missing upstream and
\* returned normally.
C13_Witness ==
    /\ call.op = "cache_data"
    /\ call.no_of_days > Len(call.lookups)
    /\ Len(call.lookups) >= 2
    /\ \E k \in 1..Len(call.lookups) :
         ~remote[create_source_url(call.lookups[k]).value].exists
    /\ call.fetched # <<>>
    /\ call.out.ok

----------------------------------------------------------------------------
(* Claims about the module-load probe (Spec) *)

\* latest_date is the most recent day not later than today whose report is
\* published, and it is not earlier than origin_date
LatestIsMostRecentPublished ==
    /\ Strftime(latest_date) \in DateStrings
    /\ remote[UrlOf(latest_date)].exists
    /\ \A d \in WindowDays :
         ( ToOrdinal(d) > ToOrdinal(latest_date) /\ ToOrdinal(d) <= ToOrdinal(today) )
         => ~remote[UrlOf(d)].exists
    /\ ToOrdinal(latest_date) >= ToOrdinal(origin_date)

\* C14: when the module-load probe has ended, latest_date is the most
\* recent day not later than today whose report can be fetched, it is not
\* earlier than origin_date, and no operation made afterwards
\* (get_source_file, get_data_for_date, get_country_data, get_new_changes,
\* cache_data) changes it.
C14_ProbeFindsLatestPublished ==
    [][ /\ pc' = "ready" => LatestIsMostRecentPublished'
        /\ pc = "ready" => latest_date' = latest_date ]_vars


----------------------------------------------------------------------------
(* The tally command *)

\* the report of day d in which a tally cell of X is not a number
MalformedReport(d) ==
    << Header,
       Row(X, Numeral(10 * d.day), <<"x">>, <<>>, <<"2">>),
       Row(Y, Numeral(d.day), <<"0">>, <<"1">>, <<>>) >>

\* the upstream repository at load, a day's report being possibly malformed
TallyScenarios ==
    LET choice(d) == IF Before(d, origin_date) THEN {File(FullReport(d))}
                     ELSE ReportsOf(d) \cup {File(MalformedReport(d)), NoFile}
        all == UNION {choice(d) : d \in WindowDays}
    IN  {rem \in [Urls -> all] : \A d \in WindowDays : rem[UrlOf(d)] \in choice(d)}

InitTally ==
    /\ today = [AddDays(origin_date, TodaySpan) EXCEPT !.tod = LoadTime]
    /\ latest_date = today
    /\ pc = "probe"
    /\ remote \in TallyScenarios
    /\ rawCache = [n \in CsvNames |-> NoFile]
    /\ derivedCache = [n \in JsonNames |-> NoFile]
    /\ call = Idle

\* the value "latest" of the option --date
Latest == <<"latest">>

\* what a user gives to --date: "latest", a day written day first, or a
\* text that is no date
DateOptions ==
    {Latest, <<30, 2, 2020>>}
        \cup {<<d.day, d.month, d.year>> : d \in WindowDays \cup {NextDay(today)}}

\* validate_date(value)
validate_date(value, latest) ==
    IF value = Latest THEN Ok(Strftime(latest))
    ELSE IF ~normalise_datetime(value).ok
    THEN Raise("BadParameter", "Invalid date format!")
    ELSE IF After(Strptime(normalise_datetime(value).value), latest)
    THEN Ok(Strftime(latest))
    ELSE normalise_datetime(value)

\* the ValueError handler of tally: the first argument of any ValueError is
\* reported as the name of a country that is not found
CountryNotFoundMessage(out) ==
    Raise("BadParameter", <<"Country", out.arg, "is not found!">>)

TallyGuard(r) ==
    IF ~r.out.ok /\ r.out.type = "ValueError"
    THEN [r EXCEPT !.out = CountryNotFoundMessage(r.out)]
    ELSE r

\* the row printed for the country, get_new_changes having given c after
\* get_country_data gave the tally `data`
TallyChanges(data, st, c) ==
    TallyGuard([c EXCEPT !.out = IF c.out.ok
                                 THEN Ok([data |-> data, changes |-> c.out.value])
                                 ELSE c.out,
                         !.fetched = st.fetched \o c.fetched,
                         !.lookups = st.lookups \o c.lookups])

\* the body of the loop of tally for one country, get_country_data having
\* given r
TallyData(date, no_change, country, latest, rem, net, r) ==
    IF ~r.out.ok THEN TallyGuard(r)
    ELSE IF ~(\E k \in 1..Len(r.out.value) : r.out.value[k][1] = date)
    THEN [r EXCEPT !.out = Raise("KeyError", date)]
    ELSE IF no_change
    THEN [r EXCEPT !.out = Ok([data |-> Values(r.out.value)[1], changes |-> 0])]
    ELSE TallyChanges(Values(r.out.value)[1], r,
                      get_new_changes(country, Strptime(date), latest,
                                      r.raw, r.derived, rem, net))

\* tally(date, no_change, (country,))
tally(date, no_change, country, latest, raw, derived, rem, net) ==
    TallyData(date, no_change, country, latest, rem, net,
              get_country_data(country, Strptime(date), Strptime(date), latest,
                               raw, derived, rem, net))

\* the command with a --date that validate_date refuses
RefuseTally(c, v) ==
    /\ call' = [c EXCEPT !.out = v]
    /\ UNCHANGED <<rawCache, derivedCache>>

\* the command "covid tally --date value [--no-change] country"
TallyCall ==
    /\ pc = "ready" /\ call = Idle
    /\ \E value \in DateOptions, no_change \in BOOLEAN,
          country \in QueryCountries, net \in Nets :
         IF validate_date(value, latest_date).ok
         THEN FinishRange([op |-> "tally", value |-> value,
                           date |-> validate_date(value, latest_date).value,
                           no_change |-> no_change, country |-> country,
                           net |-> net, out |-> None, fetched |-> <<>>,
                           lookups |-> <<>>],
                          tally(validate_date(value, latest_date).value,
                                no_change, country, latest_date,
                                rawCache, derivedCache, remote, net))
         ELSE RefuseTally([op |-> "tally", value |-> value, date |-> None,
                           no_change |-> no_change, country |-> country,
                           net |-> net, out |-> None, fetched |-> <<>>,
                           lookups |-> <<>>],
                          validate_date(value, latest_date))
    /\ UNCHANGED <<today, latest_date, pc, remote>>

NextTally ==
    \/ ProbeStep
    \/ TallyCall
    \/ Return

SpecTally == InitTally /\ [][NextTally]_vars

----------------------------------------------------------------------------
(* Claims about the kinds of failure (SpecTally) *)

\* the command has answered that a country is not found
SaysCountryNotFound ==
    /\ call.op = "tally"
    /\ ~call.out.ok
    /\ call.out.type = "BadParameter"
    /\ call.date # None

\* C15: a failure of one kind is never taken for a failure of another kind:
\* the tally command answers that a country is not found only when the
\* aggregate of a day it looked up lacks that country, never because a
\* source row was malformed.
C15_NotFoundOnlyWhenCountryAbsent ==
    SaysCountryNotFound
    => \E k \in 1..Len(call.lookups) :
         LacksCountry(call.country, Strptime(call.lookups[k]))


----------------------------------------------------------------------------
(* Claims about the effects of the aggregation (SpecExtract) *)

\* C16: when extract_source_data has aggregated the caller's rows (force, or
\* no cache_file), the caller's rows are what they were before the call, and
\* applying extract_source_data to them once more gives the same outcome.
C16_AggregationIsIdempotent ==
    ( /\ call.op = "extract_source_data"
      /\ call.parsed_data # <<>>
      /\ call.force \/ call.cache_file = None )
    => /\ call.parsed_after = call.parsed_data
       /\ extract_source_data(call.parsed_after, call.cache_file, call.force,
                              derivedCache).out = call.out


\* C17: when extract_source_data aggregates rows of which a tally cell is
\* neither empty nor a number, it fails and the derived cache is what it was
\* before the call: no entry is created, an earlier entry under cache_file
\* is kept, nothing of the rows aggregated before the failure is written.
C17_FailedAggregationWritesNothing ==
    [][ ( /\ call'.op = "extract_source_data"
          /\ call'.parsed_data # <<>>
          /\ \/ call'.force
             \/ call'.cache_file = None
             \/ ~derivedCache[call'.cache_file].exists
          /\ ~AllNumeric(Tail(call'.parsed_data)) )
        => ( /\ ~call'.out.ok
             /\ call'.out.type = "ValueError"
             /\ derivedCache' = derivedCache ) ]_vars

\* a forced aggregation under a cache_file that has an entry failed on its
\* third data row, after two rows that aggregate, and the entry is there
C17_Witness ==
    /\ call.op = "extract_source_data"
    /\ call.force
    /\ call.cache_file # None
    /\ Len(call.parsed_data) = 4
    /\ AllNumeric(SubSeq(call.parsed_data, 2, 3))
    /\ ~AllNumeric(Tail(call.parsed_data))
    /\ ~call.out.ok
    /\ derivedCache[call.cache_file].exists
    /\ JsonLoad(derivedCache[call.cache_file].content) # EmptyDict


----------------------------------------------------------------------------
(* Claims about the two caches together (SpecFetch) *)

\* the aggregate of the rows of a raw-cache file
AggregateOf(file) ==
    extract_source_data(parse_source_data(file.content), None, TRUE,
                        derivedCache).out

\* C18: in every reachable state, every date with a derived-cache entry has
\* a raw-cache entry, and the derived entry is the aggregate of the rows of
\* that raw entry.
C18_CachesAreCoherent ==
    \A d \in WindowDays :
       derivedCache[ExtractedName(UrlOf(d))].exists
       => /\ rawCache[PathName(UrlOf(d))].exists
          /\ AggregateOf(rawCache[PathName(UrlOf(d))])
               = Ok(JsonLoad(derivedCache[ExtractedName(UrlOf(d))].content))


\* the retrieval of url under network condition net fails
RetrievalFails(url, net) == net # "up" \/ ~remote[url].exists

\* C19: a get_source_file call that has to retrieve (force, or no raw-cache
\* file) and whose retrieval fails, on a report that is not published or on
\* any other transport failure, leaves the raw cache as it was; a
\* get_data_for_date call whose retrieval fails leaves both caches as they
\* were.
C19_FailedFetchChangesNothing ==
    [][ /\ ( /\ call'.op = "get_source_file"
             /\ call'.force \/ ~rawCache[PathName(call'.url)].exists
             /\ RetrievalFails(call'.url, call'.net) )
           => ( /\ call'.out = urlopen(call'.url, remote, call'.net)
                /\ ~call'.out.ok
                /\ rawCache' = rawCache )
        /\ ( /\ call'.op = "get_data_for_date"
             /\ \/ call'.force
                \/ ~rawCache[PathName(create_source_url(call'.date_string).value)].exists
             /\ RetrievalFails(create_source_url(call'.date_string).value, call'.net) )
           => ( /\ ~call'.out.ok
                /\ rawCache' = rawCache
                /\ derivedCache' = derivedCache ) ]_vars

\* a forced get_data_for_date failed in the retrieval while both caches held
\* an entry for the date, and the raw entry is there with its rows
C19_Witness ==
    /\ call.op = "get_data_for_date"
    /\ call.force
    /\ ~call.out.ok
    /\ call.out.type \in {"HTTPError", "URLError"}
    /\ rawCache[PathName(create_source_url(call.date_string).value)].exists
    /\ rawCache[PathName(create_source_url(call.date_string).value)].content # <<>>
    /\ derivedCache[ExtractedName(create_source_url(call.date_string).value)].exists


----------------------------------------------------------------------------
(* Claims about cache warming (Spec) *)

\* both caches hold an entry for day d
IsCached(d) ==
    /\ rawCache[PathName(UrlOf(d))].exists
    /\ derivedCache[ExtractedName(UrlOf(d))].exists

\* C20: after cache_data has returned normally, with the network up, from a
\* call with no_of_days at least (latest_date - origin_date).days, every day
\* of [origin_date, latest_date] whose report is published has a raw and a
\* derived cache entry, and a following get_country_data over the default
\* range performs no remote retrieval.
C20_WarmingIsComplete ==
    ( /\ call.op = "cache_data"
      /\ call.out.ok
      /\ call.net = "up"
      /\ call.no_of_days >= DaysBetween(latest_date, origin_date) )
    => /\ \A d \in WindowDays :
            (InWindow(d) /\ remote[UrlOf(d)].exists) => IsCached(d)
       /\ \A c \in QueryCountries, net \in Nets :
            get_country_data(c, None, None, latest_date, rawCache, derivedCache,
                             remote, net).fetched = <<>>

============================================================================
